---------------------------- MODULE Spec2Model ----------------------------
(***************************************************************************)
(* Model of SolidStrategy (src/SolidStrategy.py): the hyperoptable         *)
(* parameters, the protections list, the indicator / entry / exit          *)
(* pipeline over a dataframe, and the per-position hooks trailing_sell,    *)
(* check_time_based_exit, custom_sell and dynamic_roi.                     *)
(*                                                                         *)
(* Number representation.  Python floats are modelled in fixed point:      *)
(*   - prices and indicator values in thousandths (Fixed(x) = x * 1000);   *)
(*   - profit fractions in thousandths (0.05 is 50);                       *)
(*   - the trailing_stop fraction in hundredths (0.05 is 5), the           *)
(*     resolution of DecimalParameter(decimals=2);                         *)
(*   - datetimes and timedeltas in ticks, TicksPerMinute ticks a minute.   *)
(* A value that may be missing (None, NaN, an absent cell) is a sequence   *)
(* of length at most one: <<>> is None/NaN and <<v>> is the value v.       *)
(***************************************************************************)
EXTENDS Integers, Sequences, FiniteSets, TLC

\* ------------------------------------------------------------------------
\* Bounds of the model
\* ------------------------------------------------------------------------

\* Number of bars of the analysed dataframe.
FrameLen == 36

\* Number of trailing bars on which the price series changes direction.
TailLen == 3

\* Resolution of the clock: ticks per minute.
TicksPerMinute == 2

\* ------------------------------------------------------------------------
\* Optional values and float comparisons
\* ------------------------------------------------------------------------

None == <<>>

NaN == <<>>

Some(v) == <<v>>

IsDefined(x) == x # <<>>

Val(x) == x[1]

Fixed(x) == x * 1000

\* Python/pandas float comparison: any comparison with NaN is False.
Lt(a, b) == IsDefined(a) /\ IsDefined(b) /\ Val(a) < Val(b)

Gt(a, b) == IsDefined(a) /\ IsDefined(b) /\ Val(a) > Val(b)

Max(a, b) == IF a >= b THEN a ELSE b

Min(a, b) == IF a <= b THEN a ELSE b

Abs(a) == IF a >= 0 THEN a ELSE 0 - a

\* ------------------------------------------------------------------------
\* Hyperoptable parameters: the values the optimiser may pick, a few from
\* each declared range (both ends and the default).
\* ------------------------------------------------------------------------

buy_rsi_values == {20, 30, 50}

sell_rsi_values == {50, 70, 80}

buy_ema_short_values == {5, 10}

buy_ema_long_values == {20, 30}

sell_ema_short_values == {5, 10}

sell_ema_long_values == {20, 30}

max_epa_values == {0, 1, 3, 5, 10}

use_stop_protection_values == BOOLEAN

trailing_stop_values == {2, 5, 10}

max_trade_duration_values == {30, 120, 240}

VARIABLES
    buy_rsi, sell_rsi,
    buy_ema_short, buy_ema_long,
    sell_ema_short, sell_ema_long,
    max_epa, use_stop_protection,
    trailing_stop, max_trade_duration,
    dataframe,      \* column name -> sequence of cells, one per bar
    stage,          \* how far the engine's analysis of the dataframe got
    trade,          \* the open position handed to the hooks
    utcnow,         \* the wall clock read by datetime.utcnow()
    call,           \* the latest hook call: its arguments and its result
    prev            \* the hook call before it

params == <<buy_rsi, sell_rsi, buy_ema_short, buy_ema_long, sell_ema_short,
            sell_ema_long, max_epa, use_stop_protection, trailing_stop,
            max_trade_duration>>

vars == <<buy_rsi, sell_rsi, buy_ema_short, buy_ema_long, sell_ema_short,
          sell_ema_long, max_epa, use_stop_protection, trailing_stop,
          max_trade_duration, dataframe, stage, trade, utcnow, call, prev>>

\* ------------------------------------------------------------------------
\* Indicator library (talib), in fixed point
\* ------------------------------------------------------------------------

RECURSIVE SumRange(_, _, _)
\* Sum of the defined cells xs[lo..hi].
SumRange(xs, lo, hi) ==
    IF lo > hi THEN 0 ELSE Val(xs[hi]) + SumRange(xs, lo, hi - 1)

RECURSIVE EMAStep(_, _, _, _, _)
\* Extends the output column out (defined up to Len(out)) to the whole input.
EMAStep(xs, period, last, i, out) ==
    IF i > Len(xs) THEN out
    ELSE LET cur == last + (2 * (Val(xs[i]) - last)) \div (period + 1)
         IN  EMAStep(xs, period, cur, i + 1, Append(out, Some(cur)))

\* Exponential moving average whose first output is at bar first (1-based):
\* seeded with the simple average of the period cells ending at that bar,
\* NaN before it.
EMAFrom(xs, period, first) ==
    IF first > Len(xs) \/ first < period
    THEN [i \in 1..Len(xs) |-> NaN]
    ELSE LET seed == SumRange(xs, first - period + 1, first) \div period
         IN  EMAStep(xs, period, seed, first + 1,
                     [i \in 1..first |-> IF i = first THEN Some(seed) ELSE NaN])

\* ta.EMA(dataframe, timeperiod=period): over the close column.
EMA(closes, period) == EMAFrom(closes, period, period)

RECURSIVE WilderStep(_, _, _, _, _, _)
\* Wilder smoothing of gains and losses, one RSI cell per bar.
WilderStep(closes, period, gain, loss, i, out) ==
    LET rsiCell == IF gain + loss = 0 THEN 0
                   ELSE (100 * Fixed(gain)) \div (gain + loss)
        outNow  == Append(out, Some(rsiCell))
    IN  IF i > Len(closes) THEN outNow
        ELSE LET d == Val(closes[i]) - Val(closes[i - 1])
                 g == (gain * (period - 1) + Max(d, 0)) \div period
                 l == (loss * (period - 1) + Max(0 - d, 0)) \div period
             IN  WilderStep(closes, period, g, l, i + 1, outNow)

RECURSIVE SumGain(_, _, _, _)
\* Sum of the upward (sign = 1) or downward (sign = -1) changes lo..hi.
SumGain(closes, lo, hi, sign) ==
    IF lo > hi THEN 0
    ELSE Max(sign * (Val(closes[hi]) - Val(closes[hi - 1])), 0)
         + SumGain(closes, lo, hi - 1, sign)

\* ta.RSI(dataframe): period 14 over the close column, in thousandths of a
\* point; the first period bars are NaN.
RSI(closes) ==
    LET period == 14
    IN  IF Len(closes) <= period THEN [i \in 1..Len(closes) |-> NaN]
        ELSE WilderStep(closes, period,
                        SumGain(closes, 2, period + 1, 1) \div period,
                        SumGain(closes, 2, period + 1, 0 - 1) \div period,
                        period + 2,
                        [i \in 1..period |-> NaN])

\* True range of bar i (i > 1).
TrueRange(high, low, closes, i) ==
    Max(Val(high[i]) - Val(low[i]),
        Max(Abs(Val(high[i]) - Val(closes[i - 1])),
            Abs(Val(low[i]) - Val(closes[i - 1]))))

RECURSIVE SumTR(_, _, _, _, _)
SumTR(high, low, closes, lo, hi) ==
    IF lo > hi THEN 0
    ELSE TrueRange(high, low, closes, hi) + SumTR(high, low, closes, lo, hi - 1)

RECURSIVE ATRStep(_, _, _, _, _, _, _)
ATRStep(high, low, closes, period, last, i, out) ==
    IF i > Len(closes) THEN out
    ELSE LET cur == (last * (period - 1) + TrueRange(high, low, closes, i))
                    \div period
         IN  ATRStep(high, low, closes, period, cur, i + 1,
                     Append(out, Some(cur)))

\* ta.ATR(dataframe, timeperiod=period): Wilder average of the true range.
ATR(high, low, closes, period) ==
    IF Len(closes) <= period THEN [i \in 1..Len(closes) |-> NaN]
    ELSE LET seed == SumTR(high, low, closes, 2, period + 1) \div period
         IN  ATRStep(high, low, closes, period, seed, period + 2,
                     [i \in 1..(period + 1) |->
                         IF i = period + 1 THEN Some(seed) ELSE NaN])

\* ta.MACD(dataframe): periods 12 / 26 / 9.  Both averages start at the
\* first bar of the slow one; the three outputs start where the signal does.
MACD(closes) ==
    LET fast    == EMAFrom(closes, 12, 26)
        slow    == EMAFrom(closes, 26, 26)
        line    == [i \in 1..Len(closes) |->
                       IF IsDefined(slow[i]) /\ IsDefined(fast[i])
                       THEN Some(Val(fast[i]) - Val(slow[i])) ELSE NaN]
        first   == 26 + 9 - 1
        signal  == EMAFrom(line, 9, first)
        shown   == [i \in 1..Len(closes) |-> IF i >= first THEN line[i] ELSE NaN]
    IN  [macd       |-> shown,
         macdsignal |-> signal,
         macdhist   |-> [i \in 1..Len(closes) |->
                            IF IsDefined(signal[i])
                            THEN Some(Val(line[i]) - Val(signal[i])) ELSE NaN]]

\* ------------------------------------------------------------------------
\* The dataframe handed over by the engine
\* ------------------------------------------------------------------------

Bars == 1..FrameLen

\* Values the price series generator may use: the slope of the long first
\* leg and the slope of the last TailLen bars, in price units per bar.
LegSlopes == {0 - 2, 2}

TailSlopes == {0 - 40, 40}

\* Close of bar i of a series that moves by slope for all but the last
\* TailLen bars and by tail on those.
ClosePrice(slope, tail, i) ==
    1000 + slope * Min(i, FrameLen - TailLen)
         + tail * Max(0, i - (FrameLen - TailLen))

\* OHLCV columns of a frame; halted is the bar without trading volume
\* (0: every bar has volume).
RawFrame(slope, tail, halted) ==
    LET c(i) == Fixed(ClosePrice(slope, tail, i))
        o(i) == IF i = 1 THEN c(1) ELSE c(i - 1)
    IN  [open   |-> [i \in Bars |-> Some(o(i))],
         high   |-> [i \in Bars |-> Some(Max(o(i), c(i)) + Fixed(1))],
         low    |-> [i \in Bars |-> Some(Min(o(i), c(i)) - Fixed(1))],
         close  |-> [i \in Bars |-> Some(c(i))],
         volume |-> [i \in Bars |-> Some(IF i = halted THEN 0 ELSE 500)]]

\* A dataframe without rows: no pair has been analysed yet.
EmptyFrame ==
    [open |-> <<>>, high |-> <<>>, low |-> <<>>, close |-> <<>>,
     volume |-> <<>>]

\* dataframe[col] = column (a new column is added, an existing one replaced).
SetColumn(df, col, cells) ==
    (col :> cells) @@ df

\* dataframe.loc[mask, col] = v: the cells selected by mask become v, the
\* others keep their value; a column that did not exist is created with NaN
\* in the unselected cells.
SetLoc(df, mask, col, v) ==
    SetColumn(df, col,
              [i \in Bars |->
                  IF mask[i] THEN Some(v)
                  ELSE IF col \in DOMAIN df THEN df[col][i] ELSE NaN])

RECURSIVE Reduce_Or(_, _)
\* Reduce with the masks combined by | instead of &.
Reduce_Or(conditions, n) ==
    IF n = 1 THEN conditions[1]
    ELSE LET x == Reduce_Or(conditions, n - 1)
             y == conditions[n]
         IN  [i \in Bars |-> x[i] \/ y[i]]

RECURSIVE Reduce(_, _)
\* reduce(lambda x, y: x & y, conditions) for a non-empty list of masks.
Reduce(conditions, n) ==
    IF n = 1 THEN conditions[1]
    ELSE LET x == Reduce(conditions, n - 1)
             y == conditions[n]
         IN  [i \in Bars |-> x[i] /\ y[i]]

\* ------------------------------------------------------------------------
\* populate_indicators / populate_entry_trend / populate_exit_trend
\* ------------------------------------------------------------------------

IndicatorFrame(df) ==
    LET macd == MACD(df.close)
        d1 == SetColumn(df, "rsi", RSI(df.close))
        d2 == SetColumn(d1, "ema_short", EMA(df.close, buy_ema_short))
        d3 == SetColumn(d2, "ema_long", EMA(df.close, buy_ema_long))
        d4 == SetColumn(d3, "macd", macd.macd)
        d5 == SetColumn(d4, "macdsignal", macd.macdsignal)
        d6 == SetColumn(d5, "macdhist", macd.macdhist)
    IN  SetColumn(d6, "atr", ATR(df.high, df.low, df.close, 14))

\* EntryConditions without the volume condition.
EntryConditions_NoVolume(df) ==
    << [i \in Bars |-> Lt(df.rsi[i], Some(Fixed(buy_rsi)))],
       [i \in Bars |-> Gt(df.ema_short[i], df.ema_long[i])] >>

EntryConditions(df) ==
    << [i \in Bars |-> Lt(df.rsi[i], Some(Fixed(buy_rsi)))],
       [i \in Bars |-> Gt(df.ema_short[i], df.ema_long[i])],
       [i \in Bars |-> Gt(df.volume[i], Some(0))] >>

ExitConditions(df) ==
    << [i \in Bars |-> Gt(df.rsi[i], Some(Fixed(sell_rsi)))],
       [i \in Bars |-> Lt(df.ema_short[i], df.ema_long[i])],
       [i \in Bars |-> Gt(df.volume[i], Some(0))] >>

EntryFrame(df) ==
    LET conditions == EntryConditions(df)
    IN  IF Len(conditions) > 0
        THEN SetLoc(df, Reduce(conditions, Len(conditions)), "enter_long", 1)
        ELSE df

ExitFrame(df) ==
    LET conditions == ExitConditions(df)
    IN  IF Len(conditions) > 0
        THEN SetLoc(df, Reduce(conditions, Len(conditions)), "exit_long", 1)
        ELSE df

hooks == <<trade, utcnow, call, prev>>

populate_indicators ==
    /\ stage = "ohlcv"
    /\ dataframe' = IndicatorFrame(dataframe)
    /\ stage' = "indicators"
    /\ UNCHANGED <<params, hooks>>

populate_entry_trend ==
    /\ stage = "indicators"
    /\ dataframe' = EntryFrame(dataframe)
    /\ stage' = "entry"
    /\ UNCHANGED <<params, hooks>>

populate_exit_trend ==
    /\ stage = "entry"
    /\ dataframe' = ExitFrame(dataframe)
    /\ stage' = "exit"
    /\ UNCHANGED <<params, hooks>>

\* ------------------------------------------------------------------------
\* Initial states
\* ------------------------------------------------------------------------

\* The parameters at their declared defaults.
DefaultParams ==
    /\ buy_rsi = 30
    /\ sell_rsi = 70
    /\ buy_ema_short = 10
    /\ buy_ema_long = 30
    /\ sell_ema_short = 10
    /\ sell_ema_long = 30
    /\ max_epa = 1
    /\ use_stop_protection = TRUE
    /\ trailing_stop = Some(5)
    /\ max_trade_duration = 120

NoCall == [op |-> "none"]

\* Analysis of one dataframe: the optimiser has picked the signal
\* parameters, the engine hands over the OHLCV columns.
InitSignal ==
    /\ buy_rsi \in buy_rsi_values
    /\ sell_rsi \in sell_rsi_values
    /\ buy_ema_short \in buy_ema_short_values
    /\ buy_ema_long \in buy_ema_long_values
    /\ sell_ema_short \in sell_ema_short_values
    /\ sell_ema_long \in sell_ema_long_values
    /\ max_epa = 1
    /\ use_stop_protection = TRUE
    /\ trailing_stop = Some(5)
    /\ max_trade_duration = 120
    /\ \E slope \in LegSlopes, tail \in TailSlopes,
          halted \in {0} \cup ((FrameLen - TailLen + 1)..FrameLen) :
          dataframe = RawFrame(slope, tail, halted)
    /\ stage = "ohlcv"
    /\ trade = [open_rate |-> None, open_date_utc |-> 0]
    /\ utcnow = 0
    /\ call = NoCall
    /\ prev = NoCall

NextSignal ==
    \/ populate_indicators
    \/ populate_entry_trend
    \/ populate_exit_trend

SpecSignal == InitSignal /\ [][NextSignal]_vars

\* ------------------------------------------------------------------------
\* Signal claims
\* ------------------------------------------------------------------------

\* The three entry predicates of bar i, read off the indicator columns.
EntryPredicates(i) ==
    /\ Lt(dataframe.rsi[i], Some(Fixed(buy_rsi)))
    /\ Gt(dataframe.ema_short[i], dataframe.ema_long[i])
    /\ Gt(dataframe.volume[i], Some(0))

\* The three exit predicates of bar i, read off the indicator columns.
ExitPredicates(i) ==
    /\ Gt(dataframe.rsi[i], Some(Fixed(sell_rsi)))
    /\ Lt(dataframe.ema_short[i], dataframe.ema_long[i])
    /\ Gt(dataframe.volume[i], Some(0))

EntrySet(i) == dataframe.enter_long[i] = Some(1)

ExitSet(i) == dataframe.exit_long[i] = Some(1)

\* C1: once populate_entry_trend has run, enter_long is set on a bar iff
\* rsi < buy_rsi, ema_short > ema_long and volume > 0 all hold there, and
\* once populate_exit_trend has run, exit_long is set on a bar iff
\* rsi > sell_rsi, ema_short < ema_long and volume > 0 all hold there; a
\* bar where one predicate fails, a volume = 0 bar in particular, is unset.
C1_SignalsAreConjunctions ==
    /\ stage \in {"entry", "exit"} =>
          \A i \in Bars :
              /\ EntrySet(i) <=> EntryPredicates(i)
              /\ ~EntryPredicates(i) => dataframe.enter_long[i] = NaN
    /\ stage = "exit" =>
          \A i \in Bars :
              /\ ExitSet(i) <=> ExitPredicates(i)
              /\ ~ExitPredicates(i) => dataframe.exit_long[i] = NaN
              /\ dataframe.volume[i] = Some(0) => ~EntrySet(i) /\ ~ExitSet(i)

\* A frame with an entry signal on one bar, and a bar without volume that
\* is oversold in an uptrend and still has no signal.
C1_Witness ==
    /\ stage = "exit"
    /\ \E i \in Bars : EntrySet(i)
    /\ \E j \in Bars :
          /\ dataframe.volume[j] = Some(0)
          /\ Lt(dataframe.rsi[j], Some(Fixed(buy_rsi)))
          /\ Gt(dataframe.ema_short[j], dataframe.ema_long[j])
          /\ dataframe.enter_long[j] = NaN
          /\ dataframe.exit_long[j] = NaN

\* C2: the averages compared by populate_exit_trend are the ones whose
\* periods are sell_ema_short and sell_ema_long: exit_long is set on a bar
\* iff rsi > sell_rsi, EMA(sell_ema_short) < EMA(sell_ema_long) and
\* volume > 0.
C2_ExitUsesSellEma ==
    stage = "exit" =>
       \A i \in Bars :
           ExitSet(i) <=>
               /\ Gt(dataframe.rsi[i], Some(Fixed(sell_rsi)))
               /\ Lt(EMA(dataframe.close, sell_ema_short)[i],
                     EMA(dataframe.close, sell_ema_long)[i])
               /\ Gt(dataframe.volume[i], Some(0))

\* C7: after both populate_entry_trend and populate_exit_trend have run on
\* a frame without signals, no bar has both enter_long and exit_long set.
C7_AtMostOneSignalPerBar ==
    stage = "exit" => \A i \in Bars : ~(EntrySet(i) /\ ExitSet(i))

\* A frame on which the exit rule has fired on some bar.
C7_Witness ==
    /\ stage = "exit"
    /\ \E i \in Bars : ExitSet(i) /\ ~EntrySet(i)

\* ------------------------------------------------------------------------
\* Position hooks: trailing_sell, check_time_based_exit, custom_sell
\* ------------------------------------------------------------------------

\* timedelta(minutes=m), in ticks.
Minutes(m) == m * TicksPerMinute

\* Durations around the given minute marks: a tick before, on and after
\* each mark, a start before the open date, and 125 and 150 minutes.
ElapsedAround(marks) ==
    {0 - TicksPerMinute, 0, Minutes(125), Minutes(150)}
        \cup {Minutes(m) + d : m \in marks, d \in {0 - 1, 0, 1}}

\* Rates the engine may report, in thousandths: on, just above and below
\* the stop prices of the modelled positions.
CurrentRates ==
    {Fixed(90), Fixed(94), Fixed(95), Fixed(95) + 1, Fixed(98), Fixed(100),
     Fixed(180), Fixed(190) + 1, Fixed(196), Fixed(200)}

\* Unrealised profit fractions, in thousandths.
CurrentProfits == {0 - 10, 30, 50, 51, 100, 120}

OpenRates == {None, Some(Fixed(100)), Some(Fixed(200))}

OpenDates == {0, Minutes(7) + 1}

Return(v) == [exc |-> "", ret |-> v]

Raise(e) == [exc |-> e, ret |-> None]

\* open_rate * (1 - fraction) on Python values: a None operand is a
\* TypeError.  fraction is in hundredths.
MulOneMinus(open_rate, fraction) ==
    IF IsDefined(open_rate) /\ IsDefined(fraction)
    THEN Return(Some((Val(open_rate) * (100 - Val(fraction))) \div 100))
    ELSE Raise("TypeError")

\* TrailingSell with current_rate < stoploss_price.
TrailingSell_Strict(tr, current_rate) ==
    IF IsDefined(tr.open_rate) /\ IsDefined(trailing_stop)
    THEN LET stoploss_price == MulOneMinus(tr.open_rate, trailing_stop)
         IN  IF stoploss_price.exc # "" THEN stoploss_price
             ELSE IF current_rate < Val(stoploss_price.ret)
                  THEN Return(stoploss_price.ret)
                  ELSE Return(None)
    ELSE Return(None)

TrailingSell(tr, current_rate) ==
    IF IsDefined(tr.open_rate) /\ IsDefined(trailing_stop)
    THEN LET stoploss_price == MulOneMinus(tr.open_rate, trailing_stop)
         IN  IF stoploss_price.exc # "" THEN stoploss_price
             ELSE IF current_rate <= Val(stoploss_price.ret)
                  THEN Return(stoploss_price.ret)
                  ELSE Return(None)
    ELSE Return(None)

\* CheckTimeBasedExit with trade_duration >= max_duration.
CheckTimeBasedExit_Ge(tr, current_time) ==
    LET max_duration == Minutes(max_trade_duration)
        trade_duration == current_time - tr.open_date_utc
    IN  trade_duration >= max_duration

CheckTimeBasedExit(tr, current_time) ==
    LET max_duration == Minutes(max_trade_duration)
        trade_duration == current_time - tr.open_date_utc
    IN  trade_duration > max_duration

\* CustomSell without the time-based exit.
CustomSell_NoTimeExit(tr, current_time, current_rate, current_profit) ==
    IF current_profit > 50 THEN Some(current_rate)
    ELSE None

CustomSell(tr, current_time, current_rate, current_profit) ==
    IF CheckTimeBasedExit(tr, current_time) THEN Some(current_rate)
    ELSE IF current_profit > 50 THEN Some(current_rate)
    ELSE None

frame == <<dataframe, stage>>

trailing_sell ==
    \E current_rate \in CurrentRates :
        LET r == TrailingSell(trade, current_rate)
        IN  /\ call' = [op |-> "trailing_sell", current_rate |-> current_rate,
                        exc |-> r.exc, ret |-> r.ret]
            /\ UNCHANGED <<params, frame, trade, utcnow, prev>>

check_time_based_exit ==
    \E e \in ElapsedAround(max_trade_duration_values) :
        LET current_time == trade.open_date_utc + e
        IN  /\ call' = [op |-> "check_time_based_exit",
                        current_time |-> current_time,
                        ret |-> CheckTimeBasedExit(trade, current_time)]
            /\ UNCHANGED <<params, frame, trade, utcnow, prev>>

custom_sell ==
    \E e \in ElapsedAround(max_trade_duration_values),
       current_rate \in {Fixed(94), Fixed(100)},
       current_profit \in CurrentProfits :
        LET current_time == trade.open_date_utc + e
        IN  /\ call' = [op |-> "custom_sell",
                        current_time |-> current_time,
                        current_rate |-> current_rate,
                        current_profit |-> current_profit,
                        ret |-> CustomSell(trade, current_time, current_rate,
                                           current_profit)]
            /\ UNCHANGED <<params, frame, trade, utcnow, prev>>

\* The engine holds a position and calls the hooks on it; the optimiser
\* has picked the sell and protection parameters the hooks read.
InitGuard ==
    /\ buy_rsi = 30
    /\ sell_rsi = 70
    /\ buy_ema_short = 10
    /\ buy_ema_long = 30
    /\ sell_ema_short = 10
    /\ sell_ema_long = 30
    /\ max_epa = 1
    /\ use_stop_protection = TRUE
    /\ trailing_stop \in {None} \cup {Some(v) : v \in trailing_stop_values}
    /\ max_trade_duration \in max_trade_duration_values
    /\ dataframe = EmptyFrame
    /\ stage = "ohlcv"
    /\ trade \in [open_rate : OpenRates, open_date_utc : OpenDates]
    /\ utcnow = 0
    /\ call = NoCall
    /\ prev = NoCall

NextGuard ==
    \/ trailing_sell
    \/ check_time_based_exit
    \/ custom_sell

SpecGuard == InitGuard /\ [][NextGuard]_vars

\* ------------------------------------------------------------------------
\* Position guard claims
\* ------------------------------------------------------------------------

\* C3: with a defined open price and trailing fraction, trailing_sell
\* returns stop_price = open_rate * (1 - trailing_stop) iff
\* current_rate <= stop_price, equality included; in every other case,
\* an undefined open price or trailing fraction included, it returns no
\* signal; it never raises.
C3_TrailingSell ==
    call.op = "trailing_sell" =>
       /\ call.exc = ""
       /\ IF IsDefined(trade.open_rate) /\ IsDefined(trailing_stop)
          THEN LET stop_price ==
                       (Val(trade.open_rate) * (100 - Val(trailing_stop)))
                           \div 100
               IN  /\ call.ret = Some(stop_price)
                          <=> call.current_rate <= stop_price
                   /\ call.current_rate > stop_price => call.ret = None
          ELSE call.ret = None

\* A call with the current rate exactly on the stop price: the stop fires.
C3_Witness ==
    /\ call.op = "trailing_sell"
    /\ trade.open_rate = Some(Fixed(100))
    /\ trailing_stop = Some(5)
    /\ call.current_rate = Fixed(95)
    /\ call.ret = Some(Fixed(95))

\* C5: check_time_based_exit returns True iff the time since the position
\* opened strictly exceeds max_trade_duration minutes; an elapsed time
\* equal to the maximum does not trigger the exit.
C5_TimeBasedExitIsStrict ==
    call.op = "check_time_based_exit" =>
       LET elapsed == call.current_time - trade.open_date_utc
       IN  /\ elapsed > Minutes(max_trade_duration) => call.ret = TRUE
           /\ elapsed = Minutes(max_trade_duration) => call.ret = FALSE
           /\ elapsed < Minutes(max_trade_duration) => call.ret = FALSE

\* A call exactly max_trade_duration minutes after the open date.
C5_Witness ==
    /\ call.op = "check_time_based_exit"
    /\ call.current_time - trade.open_date_utc = Minutes(max_trade_duration)
    /\ call.ret = FALSE

\* C6: custom_sell returns current_rate for a trade past its duration
\* budget whatever its profit; for a trade within the budget it returns
\* current_rate iff current_profit > 0.05 and no signal otherwise; it
\* returns no other price.
C6_CustomSell ==
    call.op = "custom_sell" =>
       LET past == call.current_time - trade.open_date_utc
                       > Minutes(max_trade_duration)
       IN  /\ past => call.ret = Some(call.current_rate)
           /\ ~past /\ call.current_profit > 50
                 => call.ret = Some(call.current_rate)
           /\ ~past /\ call.current_profit <= 50 => call.ret = None
           /\ call.ret \in {None, Some(call.current_rate)}

\* A losing trade past its duration budget is told to exit at the
\* current rate.
C6_Witness ==
    /\ call.op = "custom_sell"
    /\ call.current_time - trade.open_date_utc > Minutes(max_trade_duration)
    /\ call.current_profit < 0
    /\ call.ret = Some(call.current_rate)

\* ------------------------------------------------------------------------
\* dynamic_roi and the wall clock
\* ------------------------------------------------------------------------

\* Wall-clock readings, as offsets from an open date.
ClockOffsets == ElapsedAround({60, 120})

\* DynamicRoi with the band boundaries in the earlier band.
DynamicRoi_Le(tr, current_profit, now) ==
    LET trade_duration == now - tr.open_date_utc
    IN  IF trade_duration <= Minutes(60) THEN Max(20, current_profit)
        ELSE IF trade_duration <= Minutes(120) THEN Max(50, current_profit)
        ELSE Max(100, current_profit)

\* DynamicRoi with the first comparison turned around.
DynamicRoi_Gt(tr, current_profit, now) ==
    LET trade_duration == now - tr.open_date_utc
    IN  IF trade_duration > Minutes(60) THEN Max(20, current_profit)
        ELSE IF trade_duration < Minutes(120) THEN Max(50, current_profit)
        ELSE Max(100, current_profit)

DynamicRoi(tr, current_profit, now) ==
    LET trade_duration == now - tr.open_date_utc
    IN  IF trade_duration < Minutes(60) THEN Max(20, current_profit)
        ELSE IF trade_duration < Minutes(120) THEN Max(50, current_profit)
        ELSE Max(100, current_profit)

dynamic_roi ==
    \E current_profit \in CurrentProfits :
        /\ call' = [op |-> "dynamic_roi",
                    current_profit |-> current_profit,
                    now |-> utcnow,
                    ret |-> DynamicRoi(trade, current_profit, utcnow)]
        /\ prev' = call
        /\ UNCHANGED <<params, frame, trade, utcnow>>

\* Time passes between two calls of the engine.
Tick ==
    \E e \in ClockOffsets :
        /\ trade.open_date_utc + e > utcnow
        /\ utcnow' = trade.open_date_utc + e
        /\ UNCHANGED <<params, frame, trade, call, prev>>

\* The engine holds a position opened at some date; the wall clock shows
\* some time around it.
InitRoi ==
    /\ DefaultParams
    /\ dataframe = EmptyFrame
    /\ stage = "ohlcv"
    /\ trade \in [open_rate : {Some(Fixed(100))}, open_date_utc : OpenDates]
    /\ utcnow \in {trade.open_date_utc + e : e \in ClockOffsets}
    /\ call = NoCall
    /\ prev = NoCall

NextRoi ==
    \/ dynamic_roi
    \/ Tick

SpecRoi == InitRoi /\ [][NextRoi]_vars

\* ------------------------------------------------------------------------
\* ROI curve claims
\* ------------------------------------------------------------------------

\* Age of the position at a recorded dynamic_roi call, in ticks.
AgeAt(c) == c.now - trade.open_date_utc

\* The take-profit trigger of the engine: current profit >= floor.
Fires(c) == c.current_profit >= c.ret

BothRoi == call.op = "dynamic_roi" /\ prev.op = "dynamic_roi"

\* C4: dynamic_roi returns max(0.02, profit) for an age below 60 minutes,
\* max(0.05, profit) from 60 up to (not including) 120 and max(0.10, profit)
\* from 120 on; the floor is never below the profit, and at a fixed age it
\* is non-decreasing in the profit.
C4_RoiBands ==
    /\ call.op = "dynamic_roi" =>
          LET age == AgeAt(call)
              p   == call.current_profit
          IN  /\ age < Minutes(60) => call.ret = Max(20, p)
              /\ age >= Minutes(60) /\ age < Minutes(120)
                     => call.ret = Max(50, p)
              /\ age >= Minutes(120) => call.ret = Max(100, p)
              /\ call.ret >= p
    /\ BothRoi /\ AgeAt(prev) = AgeAt(call)
          /\ prev.current_profit <= call.current_profit
          => prev.ret <= call.ret

\* A position exactly 120 minutes old with a profit of 0.03 gets the floor
\* of the last band, after a call at the same age with a smaller profit.
C4_Witness ==
    /\ BothRoi
    /\ AgeAt(call) = Minutes(120)
    /\ AgeAt(prev) = Minutes(120)
    /\ prev.current_profit < call.current_profit
    /\ call.current_profit = 30
    /\ call.ret = 100

\* C9 as stated: at a fixed profit, a trigger that fires at some age also
\* fires at every greater age.
C9_FiresAtEveryGreaterAge ==
    BothRoi /\ prev.current_profit = call.current_profit
        /\ AgeAt(prev) < AgeAt(call) /\ Fires(prev)
        => Fires(call)

\* C9 amended: at a fixed profit, a trigger that fires at some age also
\* fires at every smaller age.
C9_FiresAtEverySmallerAge ==
    BothRoi /\ prev.current_profit = call.current_profit
        /\ AgeAt(prev) < AgeAt(call) /\ Fires(call)
        => Fires(prev)

\* The trigger fires on a profit of 0.05 in the second band, after it fired
\* on the same profit in the first band.
C9_Witness ==
    /\ BothRoi
    /\ prev.current_profit = call.current_profit
    /\ AgeAt(prev) < Minutes(60)
    /\ AgeAt(call) >= Minutes(60)
    /\ Fires(call)
    /\ Fires(prev)

\* C10: two dynamic_roi calls on the same position with the same current
\* profit return the same floor, whatever the wall clock shows at each.
C10_SameSnapshotSameFloor ==
    BothRoi /\ prev.current_profit = call.current_profit
        => prev.ret = call.ret

\* ------------------------------------------------------------------------
\* protections and max_entry_position_adjustment
\* ------------------------------------------------------------------------

\* Protections with the loss-streak guard appended unconditionally.
Protections_Always ==
    << [method |-> "CooldownPeriod", stop_duration_candles |-> 2 * 24],
       [method |-> "StoplossGuard",
        lookback_period_candles |-> 24 * 3,
        trade_limit |-> 3,
        stop_duration_candles |-> 24,
        only_per_pair |-> TRUE] >>

Protections ==
    LET cooldown == << [method |-> "CooldownPeriod",
                        stop_duration_candles |-> 2 * 24] >>
    IN  IF use_stop_protection
        THEN Append(cooldown,
                    [method |-> "StoplossGuard",
                     lookback_period_candles |-> 24 * 3,
                     trade_limit |-> 3,
                     stop_duration_candles |-> 24,
                     only_per_pair |-> TRUE])
        ELSE cooldown

protections ==
    /\ call' = [op |-> "protections", ret |-> Protections]
    /\ UNCHANGED <<params, frame, trade, utcnow, prev>>

max_entry_position_adjustment ==
    /\ call' = [op |-> "max_entry_position_adjustment", ret |-> max_epa]
    /\ UNCHANGED <<params, frame, trade, utcnow, prev>>

\* A session starts: the optimiser has picked the protection and sell
\* parameters, no position is open.
InitProtection ==
    /\ buy_rsi = 30
    /\ sell_rsi = 70
    /\ buy_ema_short = 10
    /\ buy_ema_long = 30
    /\ sell_ema_short = 10
    /\ sell_ema_long = 30
    /\ max_epa \in max_epa_values
    /\ use_stop_protection \in use_stop_protection_values
    /\ trailing_stop \in {Some(v) : v \in trailing_stop_values}
    /\ max_trade_duration \in max_trade_duration_values
    /\ dataframe = EmptyFrame
    /\ stage = "ohlcv"
    /\ trade = [open_rate |-> None, open_date_utc |-> 0]
    /\ utcnow = 0
    /\ call = NoCall
    /\ prev = NoCall

NextProtection ==
    \/ protections
    \/ max_entry_position_adjustment

SpecProtection == InitProtection /\ [][NextProtection]_vars

\* The guards of a protections list, by method name.
GuardsNamed(list, name) == {i \in 1..Len(list) : list[i].method = name}

\* C8: every read of protections yields exactly one cooldown guard, first,
\* with a stop duration of 48 bars; the loss-streak guard (limit 3, lookback
\* 72, stop duration 24, per pair) second iff use_stop_protection is true;
\* no other guard; and the read changes no parameter.
C8_Protections ==
    [][call'.op = "protections" =>
          LET list == call'.ret
          IN  /\ GuardsNamed(list, "CooldownPeriod") = {1}
              /\ list[1].stop_duration_candles = 48
              /\ Len(list) = IF use_stop_protection THEN 2 ELSE 1
              /\ use_stop_protection =>
                    list[2] = [method |-> "StoplossGuard",
                               lookback_period_candles |-> 72,
                               trade_limit |-> 3,
                               stop_duration_candles |-> 24,
                               only_per_pair |-> TRUE]
              /\ params' = params]_vars

\* The list was read with the loss-streak guard switched off.
C8_Witness ==
    /\ call.op = "protections"
    /\ ~use_stop_protection
    /\ Len(call.ret) = 1

=============================================================================
